---- MODULE Spec2Model ----
(***************************************************************************)
(* Admission control and job lifecycle of the Telegram diffusion bot:      *)
(* bot/queue.py (the two semaphores and the user_tasks registry) and       *)
(* bot/handlers.py (_acquire_semaphores, _release_semaphores,              *)
(* _run_generation_task, cancel_handler), with the worker thread that      *)
(* bot/diffusion.py starts through asyncio.to_thread.                      *)
(*                                                                         *)
(* Every job runs as one asyncio task.  The event loop is single-threaded, *)
(* so everything a task does between two awaits is one atomic action.  A   *)
(* task's position (pc) is the await it is suspended at.                   *)
(*                                                                         *)
(* asyncio.Semaphore is modelled as CPython's asyncio/locks.py implements  *)
(* it: a counter, a FIFO deque of waiter futures, and release() handing    *)
(* the slot to the first waiter whose future is not yet done.              *)
(* asyncio.Task.cancel() on a task that is not done makes the task's next  *)
(* resumption raise CancelledError at the await it is suspended at;        *)
(* CancelledError is a BaseException, which `except Exception` lets pass.  *)
(* A notification call (send_message, send_document, edit_text) either     *)
(* returns, and the notice is then emitted, or raises; a call aborted by   *)
(* CancelledError emits nothing.                                           *)
(***************************************************************************)
EXTENDS Naturals, Sequences, FiniteSets

(* queue.py sets MAX_GLOBAL_CONCURRENT = 5 and MAX_PER_USER = 3; the model  *)
(* runs the same code with the smaller configuration 3 and 2, which keeps   *)
(* global > per-user > 1 and lets four jobs reach both caps.                *)
MAX_GLOBAL_CONCURRENT == 3
MAX_PER_USER == 2

(* The workload: the user of each submission.  User A submits one job more  *)
(* than MAX_PER_USER, and the four jobs together one more than              *)
(* MAX_GLOBAL_CONCURRENT.                                                    *)
Submissions == <<"A", "A", "A", "B">>

(* Bound on the number of /cancel commands. *)
MaxCancels == 1

Users == {"A", "B"}
Jobs == 1..Len(Submissions)
None == 0

(* update.effective_user.id of the update that submits job j *)
user_id(j) == Submissions[j]

Awaits == {"wait_global", "wait_user", "send_progress", "generate",
           "send_document", "edit_done", "edit_failed"}
Terminal == {"COMPLETED", "FAILED", "CANCELLED", "RAISED"}

VARIABLES
    pc,               \* job -> "new", the await it is suspended at, or how its task ended
    global_semaphore, \* queue.py global_semaphore
    _user_semaphores, \* queue.py _user_semaphores: user -> semaphore, created lazily
    user_tasks,       \* queue.py user_tasks: user -> job (task)
    must_cancel,      \* job -> task.cancel() was called on the task while it was not done
    thread,           \* job -> state of the to_thread worker: none, running, ok, err
    exc,              \* job -> the exception bound by `except Exception as exc`
    held,             \* job -> the semaphores it has acquired and not released
    released,         \* job -> number of times _release_semaphores ran for it
    notices,          \* job -> the notices sent to the requester about it, in order
    newest,           \* user -> the job registered last, None once any job of the user has cleaned up
    last_cancel,      \* the last /cancel: who called, what was replied
    ncancel,          \* number of /cancel calls so far
    cleanup,          \* job -> the steps its finally block performed, in order
    loras,            \* one call of diffusion.py _apply_loras:
                      \*   lora_names: the argument
                      \*   files: the names for which os.path.isfile(lora_path) is true
                      \*   broken: the files for which pipeline.load_lora_weights raises
                      \*   i: position of the for loop in lora_names
                      \*   loaded: the names loaded into the pipeline by this call, in order
                      \*   pc: idle, loop, returned or raised
    llm               \* one call of llm.py generate_prompt_from_idea:
                      \*   client: whether _client was configured
                      \*   idea_text: the argument, a sequence of characters
                      \*   prompt: the returned text
                      \*   pc: idle, called, thread, returned or raised

jobvars == <<pc, global_semaphore, _user_semaphores, user_tasks, must_cancel, thread,
             exc, held, released, notices, newest, last_cancel, ncancel, cleanup>>
vars == <<pc, global_semaphore, _user_semaphores, user_tasks, must_cancel, thread,
          exc, held, released, notices, newest, last_cancel, ncancel, cleanup,
          loras, llm>>

-----------------------------------------------------------------------------
(* asyncio.Semaphore *)

Semaphore(n) == [value |-> n, waiters |-> <<>>, woken |-> {}]

locked(s) == s.value = 0 \/ Len(s.waiters) > 0

RECURSIVE FirstNotDone(_, _, _)
FirstNotDone(ws, woken, i) ==
    IF i > Len(ws) THEN 0
    ELSE IF ws[i] \notin woken THEN i
    ELSE FirstNotDone(ws, woken, i + 1)

_wake_up_next(s) ==
    LET i == FirstNotDone(s.waiters, s.woken, 1)
    IN IF i = 0 THEN s
       ELSE [s EXCEPT !.value = @ - 1, !.woken = @ \cup {s.waiters[i]}]

release(s) == _wake_up_next([s EXCEPT !.value = @ + 1])

(* acquire(), fast path: the semaphore is not locked *)
acquire_now(s) == [s EXCEPT !.value = @ - 1]

(* acquire(), slow path up to `await fut` *)
acquire_wait(s, j) == [s EXCEPT !.waiters = Append(@, j)]

RECURSIVE Without(_, _)
Without(ws, j) ==
    IF ws = <<>> THEN <<>>
    ELSE IF Head(ws) = j THEN Tail(ws)
    ELSE <<Head(ws)>> \o Without(Tail(ws), j)

(* acquire(), slow path after `await fut` returned *)
acquire_resume(s, j) ==
    LET r == [s EXCEPT !.waiters = Without(@, j), !.woken = @ \ {j}]
    IN IF r.value > 0 THEN _wake_up_next(r) ELSE r

-----------------------------------------------------------------------------
(* queue.py *)

get_user_semaphore_fresh(sems, u) ==
    [x \in DOMAIN sems \cup {u} |-> IF x = u THEN Semaphore(MAX_PER_USER) ELSE sems[x]]

(* the _user_semaphores map after get_user_semaphore(u) *)
get_user_semaphore(sems, u) ==
    IF u \notin DOMAIN sems
    THEN [x \in DOMAIN sems \cup {u} |-> IF x = u THEN Semaphore(MAX_PER_USER) ELSE sems[x]]
    ELSE sems

Put(f, k, v) == [x \in DOMAIN f \cup {k} |-> IF x = k THEN v ELSE f[x]]
Pop(f, k) == [x \in DOMAIN f \ {k} |-> f[x]]
Get(f, k) == IF k \in DOMAIN f THEN f[k] ELSE None

done(j) == pc[j] \in Terminal

JobsInit ==
    /\ pc = [j \in Jobs |-> "new"]
    /\ global_semaphore = Semaphore(MAX_GLOBAL_CONCURRENT)
    /\ _user_semaphores = <<>>
    /\ user_tasks = <<>>
    /\ must_cancel = [j \in Jobs |-> FALSE]
    /\ thread = [j \in Jobs |-> "none"]
    /\ exc = [j \in Jobs |-> "none"]
    /\ held = [j \in Jobs |-> {}]
    /\ released = [j \in Jobs |-> 0]
    /\ notices = [j \in Jobs |-> <<>>]
    /\ newest = [u \in Users |-> None]
    /\ last_cancel = [user |-> "none", reply |-> "none", task |-> None]
    /\ ncancel = 0
    /\ cleanup = [j \in Jobs |-> <<>>]

(* no call of _apply_loras is modelled *)
LorasIdle ==
    loras = [lora_names |-> <<>>, files |-> {}, broken |-> {}, i |-> 0,
             loaded |-> <<>>, pc |-> "idle"]

(* no call of generate_prompt_from_idea is modelled *)
PromptIdle ==
    llm = [client |-> FALSE, idea_text |-> <<>>, prompt |-> <<>>, pc |-> "idle"]

Init == JobsInit /\ LorasIdle /\ PromptIdle

-----------------------------------------------------------------------------
(* handlers.py: _run_generation_task *)

Register_setdefault(j) ==
    /\ user_tasks' = IF user_id(j) \in DOMAIN user_tasks THEN user_tasks
                     ELSE Put(user_tasks, user_id(j), j)
    /\ newest' = [newest EXCEPT ![user_id(j)] = j]
    /\ pc' = [pc EXCEPT ![j] = "send_progress"]
    /\ held' = [held EXCEPT ![j] = {"global", "user"}]

(* lines 74-79: register the task, then await the placeholder message *)
Register(j) ==
    /\ user_tasks' = Put(user_tasks, user_id(j), j)
    /\ newest' = [newest EXCEPT ![user_id(j)] = j]
    /\ pc' = [pc EXCEPT ![j] = "send_progress"]
    /\ held' = [held EXCEPT ![j] = {"global", "user"}]

AcquireUser_register_first(j) ==
    LET u == user_id(j)
        sems == get_user_semaphore(_user_semaphores, u)
    IN IF ~locked(sems[u])
       THEN /\ _user_semaphores' = [sems EXCEPT ![u] = acquire_now(@)]
            /\ Register(j)
       ELSE /\ _user_semaphores' = [sems EXCEPT ![u] = acquire_wait(@, j)]
            /\ pc' = [pc EXCEPT ![j] = "wait_user"]
            /\ held' = [held EXCEPT ![j] = {"global"}]
            /\ user_tasks' = Put(user_tasks, u, j)
            /\ newest' = [newest EXCEPT ![u] = j]

(* _acquire_semaphores lines 36-37, entered with the global slot taken *)
AcquireUser(j) ==
    LET u == user_id(j)
        sems == get_user_semaphore(_user_semaphores, u)
    IN IF ~locked(sems[u])
       THEN /\ _user_semaphores' = [sems EXCEPT ![u] = acquire_now(@)]
            /\ Register(j)
       ELSE /\ _user_semaphores' = [sems EXCEPT ![u] = acquire_wait(@, j)]
            /\ pc' = [pc EXCEPT ![j] = "wait_user"]
            /\ held' = [held EXCEPT ![j] = {"global"}]
            /\ UNCHANGED <<user_tasks, newest>>

(* A handler (gen_handler, idea_handler, random_handler) calls               *)
(* _run_generation_task: the task runs up to its first suspension.  Jobs of  *)
(* one user are numbered in the order that user submits them.                *)
Submit(j) ==
    /\ pc[j] = "new"
    /\ \A k \in Jobs : (k < j /\ user_id(k) = user_id(j)) => pc[k] # "new"
    /\ IF ~locked(global_semaphore)
       THEN /\ global_semaphore' = acquire_now(global_semaphore)
            /\ AcquireUser(j)
       ELSE /\ global_semaphore' = acquire_wait(global_semaphore, j)
            /\ pc' = [pc EXCEPT ![j] = "wait_global"]
            /\ UNCHANGED <<_user_semaphores, user_tasks, newest, held>>
    /\ UNCHANGED <<must_cancel, thread, exc, released, notices, last_cancel, ncancel, cleanup>>

(* line 35 returns: global_semaphore.acquire() was woken by a release *)
GlobalAcquired(j) ==
    /\ pc[j] = "wait_global"
    /\ j \in global_semaphore.woken
    /\ global_semaphore' = acquire_resume(global_semaphore, j)
    /\ AcquireUser(j)
    /\ UNCHANGED <<must_cancel, thread, exc, released, notices, last_cancel, ncancel, cleanup>>

(* line 37 returns: user_sem.acquire() was woken by a release *)
UserAcquired(j) ==
    /\ pc[j] = "wait_user"
    /\ j \in _user_semaphores[user_id(j)].woken
    /\ _user_semaphores' = [_user_semaphores EXCEPT ![user_id(j)] = acquire_resume(@, j)]
    /\ Register(j)
    /\ UNCHANGED <<global_semaphore, must_cancel, thread, exc, released, notices,
                   last_cancel, ncancel, cleanup>>

(* _release_semaphores, lines 41-44: the per-user semaphore, then the global one *)
_release_semaphores(j) ==
    /\ _user_semaphores' = [_user_semaphores EXCEPT ![user_id(j)] = release(@)]
    /\ global_semaphore' = release(global_semaphore)
    /\ held' = [held EXCEPT ![j] = {}]
    /\ released' = [released EXCEPT ![j] = @ + 1]

release_steps_global_first == <<"release_global", "release_user">>

(* the order of the two statements of _release_semaphores, lines 43-44 *)
release_steps == <<"release_user", "release_global">>

Finally_pop_first(j) ==
    /\ _release_semaphores(j)
    /\ user_tasks' = Pop(user_tasks, user_id(j))
    /\ newest' = [newest EXCEPT ![user_id(j)] = None]
    /\ cleanup' = [cleanup EXCEPT ![j] = @ \o <<"pop">> \o release_steps]

(* the finally block: line 102 _release_semaphores, then line 103 user_tasks.pop *)
Finally(j) ==
    /\ _release_semaphores(j)
    /\ user_tasks' = Pop(user_tasks, user_id(j))
    /\ newest' = [newest EXCEPT ![user_id(j)] = None]
    /\ cleanup' = [cleanup EXCEPT ![j] = @ \o release_steps \o <<"pop">>]

NoCleanup ==
    UNCHANGED <<global_semaphore, _user_semaphores, user_tasks, newest, held, released, cleanup>>

ProgressSent_silent(j) ==
    /\ pc[j] = "send_progress" /\ ~must_cancel[j]
    /\ thread' = [thread EXCEPT ![j] = "running"]
    /\ pc' = [pc EXCEPT ![j] = "generate"]
    /\ NoCleanup
    /\ UNCHANGED <<must_cancel, exc, notices, last_cancel, ncancel>>

(* line 79 returns: the placeholder is out; lines 81-88 enter the try and   *)
(* generate_image starts the worker thread (diffusion.py line 75)            *)
ProgressSent(j) ==
    /\ pc[j] = "send_progress" /\ ~must_cancel[j]
    /\ notices' = [notices EXCEPT ![j] = Append(@, "progress")]
    /\ thread' = [thread EXCEPT ![j] = "running"]
    /\ pc' = [pc EXCEPT ![j] = "generate"]
    /\ NoCleanup
    /\ UNCHANGED <<must_cancel, exc, last_cancel, ncancel>>

(* line 79 raises: the call is outside the try, nothing is cleaned up *)
ProgressRaises(j) ==
    /\ pc[j] = "send_progress" /\ ~must_cancel[j]
    /\ pc' = [pc EXCEPT ![j] = "RAISED"]
    /\ NoCleanup
    /\ UNCHANGED <<must_cancel, thread, exc, notices, last_cancel, ncancel>>

(* CancelledError raised at line 79, outside the try *)
CancelledBeforeTry(j) ==
    /\ pc[j] = "send_progress" /\ must_cancel[j]
    /\ pc' = [pc EXCEPT ![j] = "CANCELLED"]
    /\ NoCleanup
    /\ UNCHANGED <<must_cancel, thread, exc, notices, last_cancel, ncancel>>

(* diffusion.py _run (lines 62-73) returns in its worker thread *)
BackendReturns(j) ==
    /\ thread[j] = "running"
    /\ thread' = [thread EXCEPT ![j] = "ok"]
    /\ UNCHANGED <<pc, global_semaphore, _user_semaphores, user_tasks, must_cancel, exc,
                   held, released, notices, newest, last_cancel, ncancel, cleanup>>

(* diffusion.py _run raises in its worker thread *)
BackendRaises(j) ==
    /\ thread[j] = "running"
    /\ thread' = [thread EXCEPT ![j] = "err"]
    /\ UNCHANGED <<pc, global_semaphore, _user_semaphores, user_tasks, must_cancel, exc,
                   held, released, notices, newest, last_cancel, ncancel, cleanup>>

(* line 83 returns the image; lines 90-94 await send_document *)
ImageReady(j) ==
    /\ pc[j] = "generate" /\ ~must_cancel[j] /\ thread[j] = "ok"
    /\ pc' = [pc EXCEPT ![j] = "send_document"]
    /\ NoCleanup
    /\ UNCHANGED <<must_cancel, thread, exc, notices, last_cancel, ncancel>>

(* line 83 raises; lines 97-99 await the failure edit *)
GenerationFailed(j) ==
    /\ pc[j] = "generate" /\ ~must_cancel[j] /\ thread[j] = "err"
    /\ exc' = [exc EXCEPT ![j] = "backend_error"]
    /\ pc' = [pc EXCEPT ![j] = "edit_failed"]
    /\ NoCleanup
    /\ UNCHANGED <<must_cancel, thread, notices, last_cancel, ncancel>>

(* line 94 returns: the image is delivered; line 96 awaits the success edit *)
DocumentSent(j) ==
    /\ pc[j] = "send_document" /\ ~must_cancel[j]
    /\ notices' = [notices EXCEPT ![j] = Append(@, "image")]
    /\ pc' = [pc EXCEPT ![j] = "edit_done"]
    /\ NoCleanup
    /\ UNCHANGED <<must_cancel, thread, exc, last_cancel, ncancel>>

(* line 94 raises; lines 97-99 *)
DocumentRaises(j) ==
    /\ pc[j] = "send_document" /\ ~must_cancel[j]
    /\ exc' = [exc EXCEPT ![j] = "notify_error"]
    /\ pc' = [pc EXCEPT ![j] = "edit_failed"]
    /\ NoCleanup
    /\ UNCHANGED <<must_cancel, thread, notices, last_cancel, ncancel>>

(* line 96 returns; the finally block runs and the task returns *)
SuccessEdited(j) ==
    /\ pc[j] = "edit_done" /\ ~must_cancel[j]
    /\ notices' = [notices EXCEPT ![j] = Append(@, "success")]
    /\ Finally(j)
    /\ pc' = [pc EXCEPT ![j] = "COMPLETED"]
    /\ UNCHANGED <<must_cancel, thread, exc, last_cancel, ncancel>>

(* line 96 raises; lines 97-99 *)
SuccessEditRaises(j) ==
    /\ pc[j] = "edit_done" /\ ~must_cancel[j]
    /\ exc' = [exc EXCEPT ![j] = "notify_error"]
    /\ pc' = [pc EXCEPT ![j] = "edit_failed"]
    /\ NoCleanup
    /\ UNCHANGED <<must_cancel, thread, notices, last_cancel, ncancel>>

(* line 99 returns: the failure notice carries str(exc); finally; the task returns *)
FailureEdited(j) ==
    /\ pc[j] = "edit_failed" /\ ~must_cancel[j]
    /\ notices' = [notices EXCEPT ![j] = Append(@, "failed: " \o exc[j])]
    /\ Finally(j)
    /\ pc' = [pc EXCEPT ![j] = "FAILED"]
    /\ UNCHANGED <<must_cancel, thread, exc, last_cancel, ncancel>>

(* line 99 raises inside the except block: finally runs, the exception leaves the function *)
FailureEditRaises(j) ==
    /\ pc[j] = "edit_failed" /\ ~must_cancel[j]
    /\ Finally(j)
    /\ pc' = [pc EXCEPT ![j] = "RAISED"]
    /\ UNCHANGED <<must_cancel, thread, exc, notices, last_cancel, ncancel>>

(* CancelledError raised at line 83, 94, 96 or 99: not an Exception, so only finally runs *)
CancelledInTry(j) ==
    /\ pc[j] \in {"generate", "send_document", "edit_done", "edit_failed"} /\ must_cancel[j]
    /\ Finally(j)
    /\ pc' = [pc EXCEPT ![j] = "CANCELLED"]
    /\ UNCHANGED <<must_cancel, thread, exc, notices, last_cancel, ncancel>>

-----------------------------------------------------------------------------
(* handlers.py: cancel_handler, lines 228-239 *)

user_tasks_get_shared(u) ==
    IF DOMAIN user_tasks = {} THEN None
    ELSE user_tasks[CHOOSE v \in DOMAIN user_tasks : \A w \in DOMAIN user_tasks : user_tasks[w] <= user_tasks[v]]

user_tasks_get_any(u) ==
    IF \E j \in Jobs : user_id(j) = u /\ pc[j] \in Awaits \ {"wait_global", "wait_user"}
    THEN CHOOSE j \in Jobs : user_id(j) = u /\ pc[j] \in Awaits \ {"wait_global", "wait_user"}
    ELSE None

(* line 234: user_tasks.get(user_id) *)
user_tasks_get(u) == Get(user_tasks, u)

cancellable_if_present(task) == task # None

(* line 235: task and not task.done() *)
cancellable(task) == task # None /\ ~done(task)

cancel_handler(u) ==
    /\ ncancel < MaxCancels
    /\ ncancel' = ncancel + 1
    /\ LET task == user_tasks_get(u)
       IN IF cancellable(task)
          THEN /\ must_cancel' = [must_cancel EXCEPT ![task] = TRUE]
               /\ notices' = [notices EXCEPT ![task] = Append(@, "cancelled")]
               /\ last_cancel' = [user |-> u, reply |-> "cancelled", task |-> task]
          ELSE /\ last_cancel' = [user |-> u, reply |-> "nothing", task |-> None]
               /\ UNCHANGED <<must_cancel, notices>>
    /\ UNCHANGED <<pc, global_semaphore, _user_semaphores, user_tasks, thread, exc,
                   held, released, newest, cleanup>>

-----------------------------------------------------------------------------
JobStep(j) ==
    \/ GlobalAcquired(j)
    \/ UserAcquired(j)
    \/ ProgressSent(j)
    \/ ProgressRaises(j)
    \/ CancelledBeforeTry(j)
    \/ ImageReady(j)
    \/ GenerationFailed(j)
    \/ DocumentSent(j)
    \/ DocumentRaises(j)
    \/ SuccessEdited(j)
    \/ SuccessEditRaises(j)
    \/ FailureEdited(j)
    \/ FailureEditRaises(j)
    \/ CancelledInTry(j)

Backend(j) == BackendReturns(j) \/ BackendRaises(j)

Next ==
    /\ \/ \E j \in Jobs : Submit(j)
       \/ \E j \in Jobs : JobStep(j)
       \/ \E j \in Jobs : Backend(j)
       \/ \E u \in Users : cancel_handler(u)
    /\ UNCHANGED <<loras, llm>>

Spec == Init /\ [][Next]_vars

(* Every suspended task is eventually resumed and every worker thread ends: *)
(* the event loop runs ready tasks, and every backend and notification call *)
(* eventually returns or raises.  Submissions and /cancel are not forced.   *)
FairSpec ==
    /\ Spec
    /\ \A j \in Jobs : /\ WF_vars(JobStep(j) /\ UNCHANGED <<loras, llm>>)
                       /\ WF_vars(Backend(j) /\ UNCHANGED <<loras, llm>>)

-----------------------------------------------------------------------------
(* Vocabulary of the properties *)

Submitted(j) == pc[j] # "new"
Waiting(j) == pc[j] \in {"wait_global", "wait_user"}
(* the task is registered and suspended at an await of lines 79-99 *)
Dispatched(j) == pc[j] \in Awaits \ {"wait_global", "wait_user"}
(* j has returned from _acquire_semaphores and has not run _release_semaphores *)
Admitted(j) == (Dispatched(j) \/ done(j)) /\ released[j] = 0
AdmittedJobs == {j \in Jobs : Admitted(j)}
AdmittedOf(u) == {j \in AdmittedJobs : user_id(j) = u}

(* a step of cancel_handler for user u *)
CancelStep(u) == ncancel' = ncancel + 1 /\ last_cancel'.user = u

Has(seq, x) == \E i \in 1..Len(seq) : seq[i] = x

(* the kinds of terminal outcome the requester was shown for job j *)
OutcomeKinds(j) ==
    {k \in {"success", "failed", "cancelled"} :
        \/ k = "success" /\ (Has(notices[j], "image") \/ Has(notices[j], "success"))
        \/ k = "failed" /\ \E e \in {"backend_error", "notify_error"} :
                               Has(notices[j], "failed: " \o e)
        \/ k = "cancelled" /\ Has(notices[j], "cancelled")}

-----------------------------------------------------------------------------
(* C1: at most MAX_GLOBAL_CONCURRENT jobs are between the return of          *)
(* _acquire_semaphores and _release_semaphores, and at most MAX_PER_USER of  *)
(* them belong to any one user.                                              *)
C1_CapacityInvariant ==
    /\ Cardinality(AdmittedJobs) <= MAX_GLOBAL_CONCURRENT
    /\ \A u \in Users : Cardinality(AdmittedOf(u)) <= MAX_PER_USER

(* both caps are reached at once, a job waits behind each, and a cancel was requested *)
C1_Witness ==
    /\ Cardinality(AdmittedJobs) = MAX_GLOBAL_CONCURRENT
    /\ Cardinality(AdmittedOf("A")) = MAX_PER_USER
    /\ \E j \in Jobs : Waiting(j)
    /\ \E j \in Jobs : done(j)
    /\ ncancel > 0

(* C2: every job that returned from _acquire_semaphores releases its two     *)
(* tickets exactly once, however it ends; a job that has ended holds none.   *)
C2_ReleasedOnEveryPath ==
    \A j \in Jobs : done(j) => released[j] = 1 /\ held[j] = {}

(* C3: under fair scheduling, with every call returning or raising, every    *)
(* submitted job eventually reaches a terminal state.                        *)
C3_EveryJobTerminates ==
    \A j \in Jobs : Submitted(j) ~> done(j)

(* C4: no job is shown more than one kind of terminal outcome (image or     *)
(* success notice, failure notice, cancellation confirmation).               *)
C4_AtMostOneOutcome ==
    \A j \in Jobs : Cardinality(OutcomeKinds(j)) <= 1

C6_CancelReply ==
    [][\A u \in Users : CancelStep(u) =>
          LET t == Get(user_tasks, u)
          IN IF t # None /\ ~done(t)
             THEN /\ last_cancel'.reply = "cancelled"
                  /\ must_cancel' = [must_cancel EXCEPT ![t] = TRUE]
             ELSE /\ last_cancel'.reply = "nothing"
                  /\ must_cancel' = must_cancel]_vars

(* /cancel answered "nothing to cancel" while user_tasks held an entry whose task had ended *)
C6_Witness ==
    /\ last_cancel.reply = "nothing"
    /\ last_cancel.user \in DOMAIN user_tasks
    /\ done(user_tasks[last_cancel.user])

(* C7: /cancel of a user with no entry in user_tasks changes neither         *)
(* semaphore, nor user_tasks, nor the state of any job.                      *)
C7_IdleCancelNoEffect ==
    [][\A u \in Users : (CancelStep(u) /\ u \notin DOMAIN user_tasks) =>
          UNCHANGED <<pc, global_semaphore, _user_semaphores, user_tasks, must_cancel,
                      thread, exc, held, released, notices>>]_vars

(* /cancel of a user without entry was answered while a job of that user was dispatched *)
C7_Witness ==
    /\ last_cancel.reply = "nothing"
    /\ last_cancel.user \in Users \ DOMAIN user_tasks
    /\ \E j \in Jobs : user_id(j) = last_cancel.user /\ Dispatched(j)
    /\ \E j \in Jobs : Waiting(j)

(* C8: a job whose backend call raised (and that nobody cancelled) ends in   *)
(* FAILED with a failure notice carrying the backend's message, its tickets  *)
(* released and its entry removed; nothing is raised out of the task.        *)
C8_BackendFailureAbsorbed ==
    \A j \in Jobs :
        (done(j) /\ exc[j] = "backend_error" /\ ~must_cancel[j]) =>
            /\ pc[j] = "FAILED"
            /\ Has(notices[j], "failed: backend_error")
            /\ held[j] = {}
            /\ Get(user_tasks, user_id(j)) # j

(* C9: no job holds a global slot while it waits for its per-user slot. *)
C9_SlotsTakenTogether ==
    \A j \in Jobs : "global" \in held[j] => "user" \in held[j]

(* C10: a job that /cancel reported cancelled ends in CANCELLED with its     *)
(* entry removed and both tickets released.                                  *)
C10_CancelledJobCleansUp ==
    \A j \in Jobs :
        (done(j) /\ must_cancel[j]) =>
            /\ pc[j] = "CANCELLED"
            /\ held[j] = {}
            /\ released[j] = 1
            /\ Get(user_tasks, user_id(j)) # j

-----------------------------------------------------------------------------
(* C11: every entry of user_tasks refers to a job that is admitted and has  *)
(* not ended.                                                                *)
C11_EntriesAreLive ==
    \A u \in DOMAIN user_tasks : Dispatched(user_tasks[u]) /\ Admitted(user_tasks[u])

ResultNotices == {"image", "success", "failed: backend_error", "failed: notify_error"}

(* C12 as stated: every image, success, failure or cancellation notice of a *)
(* job comes after an in-progress notice of that job.                        *)
C12_ProgressBeforeAnyTerminalNotice ==
    \A j \in Jobs : \A i \in 1..Len(notices[j]) :
        notices[j][i] \in ResultNotices \cup {"cancelled"}
            => \E k \in 1..(i - 1) : notices[j][k] = "progress"

(* C12 amended: every image, success or failure notice of a job comes after *)
(* its in-progress notice; the in-progress notice is the job's first notice  *)
(* unless a cancellation confirmation came first, and then none is emitted;  *)
(* a job with an in-progress notice was admitted and holds both tickets      *)
(* until its cleanup.                                                        *)
C12_ProgressBeforeResultNotice ==
    \A j \in Jobs :
        /\ \A i \in 1..Len(notices[j]) :
              notices[j][i] \in ResultNotices
                  => \E k \in 1..(i - 1) : notices[j][k] = "progress"
        /\ \A i \in 1..Len(notices[j]) :
              notices[j][i] = "progress"
                  => i = 1 /\ (Dispatched(j) \/ done(j))
                           /\ (held[j] = {"global", "user"} \/ released[j] = 1)
        /\ (notices[j] # <<>> /\ notices[j][1] # "progress")
              => \A i \in 1..Len(notices[j]) : notices[j][i] = "cancelled"

(* one job was confirmed cancelled before its placeholder went out, another got its *)
(* placeholder and then a failure notice                                             *)
C12_Witness ==
    \E j, k \in Jobs :
        /\ pc[j] = "CANCELLED" /\ notices[j] = <<"cancelled">>
        /\ pc[k] = "FAILED" /\ notices[k] = <<"progress", "failed: backend_error">>

-----------------------------------------------------------------------------
(* diffusion.py: _apply_loras, lines 32-47, one call with any argument and  *)
(* any state of the loras directory                                          *)

LoraNames == {"a", "b", "c"}

(* Bound on the length of lora_names. *)
MaxLoras == 3

BoundedSeq(S, n) == UNION {[1..k -> S] : k \in 0..n}

LorasInit ==
    /\ JobsInit /\ PromptIdle
    /\ \E names \in BoundedSeq(LoraNames, MaxLoras) :
       \E files \in SUBSET LoraNames :
       \E broken \in SUBSET files :
          loras = [lora_names |-> names, files |-> files, broken |-> broken,
                   i |-> 0, loaded |-> <<>>, pc |-> "called"]

skip_missing_return(l) == [l EXCEPT !.pc = "returned"]

(* lines 42-43: the file is missing, continue with the next name *)
skip_missing(l) == [l EXCEPT !.i = @ + 1]

(* lines 36-40: an empty list returns at once, otherwise the loop starts *)
ApplyLorasEnter ==
    /\ loras.pc = "called"
    /\ loras' = IF loras.lora_names = <<>>
                THEN [loras EXCEPT !.pc = "returned"]
                ELSE [loras EXCEPT !.pc = "loop", !.i = 1]
    /\ UNCHANGED <<jobvars, llm>>

LoraMissing ==
    /\ loras.pc = "loop" /\ loras.i <= Len(loras.lora_names)
    /\ loras.lora_names[loras.i] \notin loras.files
    /\ loras' = skip_missing(loras)
    /\ UNCHANGED <<jobvars, llm>>

(* lines 44-45: load_lora_weights returns *)
LoraLoaded ==
    /\ loras.pc = "loop" /\ loras.i <= Len(loras.lora_names)
    /\ loras.lora_names[loras.i] \in loras.files \ loras.broken
    /\ loras' = [loras EXCEPT !.loaded = Append(@, loras.lora_names[loras.i]), !.i = @ + 1]
    /\ UNCHANGED <<jobvars, llm>>

(* lines 44-47: load_lora_weights raises, the except block prints and the loop goes on *)
LoraLoadFails ==
    /\ loras.pc = "loop" /\ loras.i <= Len(loras.lora_names)
    /\ loras.lora_names[loras.i] \in loras.broken
    /\ loras' = [loras EXCEPT !.i = @ + 1]
    /\ UNCHANGED <<jobvars, llm>>

(* the for loop is exhausted: the function returns None *)
ApplyLorasReturn ==
    /\ loras.pc = "loop" /\ loras.i > Len(loras.lora_names)
    /\ loras' = [loras EXCEPT !.pc = "returned"]
    /\ UNCHANGED <<jobvars, llm>>

LorasNext ==
    \/ ApplyLorasEnter
    \/ LoraMissing
    \/ LoraLoaded
    \/ LoraLoadFails
    \/ ApplyLorasReturn

LorasSpec == LorasInit /\ [][LorasNext]_vars

(* C13: _apply_loras never raises because of a name it cannot resolve or    *)
(* load, and when it returns the pipeline has received exactly the names     *)
(* that resolve and load, in their order: what the call without the other    *)
(* names would have loaded.                                                  *)
C13_MissingLoraSkipped ==
    LET usable(n) == n \in loras.files \ loras.broken
    IN /\ loras.pc # "raised"
       /\ loras.pc = "returned" => loras.loaded = SelectSeq(loras.lora_names, usable)

(* a call returned after skipping a missing name and a failing one and loading a later one *)
C13_Witness ==
    /\ loras.pc = "returned"
    /\ \E i, k, m \in 1..Len(loras.lora_names) :
          /\ i < m /\ k < m
          /\ loras.lora_names[i] \notin loras.files
          /\ loras.lora_names[k] \in loras.broken
          /\ loras.lora_names[m] \in loras.files \ loras.broken
    /\ loras.loaded # <<>>

-----------------------------------------------------------------------------
(* llm.py: generate_prompt_from_idea, lines 17-42, one call with any text,  *)
(* with and without a configured client.  Texts are sequences of characters. *)

Chars == {" ", "a", "b"}

(* Bound on the length of the idea text and of the LLM's answer. *)
MaxTextLen == 3

Texts == BoundedSeq(Chars, MaxTextLen)

RECURSIVE lstrip(_)
lstrip(t) == IF t # <<>> /\ Head(t) = " " THEN lstrip(Tail(t)) ELSE t

RECURSIVE rstrip(_)
rstrip(t) ==
    IF t # <<>> /\ t[Len(t)] = " " THEN rstrip(SubSeq(t, 1, Len(t) - 1)) ELSE t

(* str.strip() *)
strip(t) == rstrip(lstrip(t))

PromptInit ==
    /\ JobsInit /\ LorasIdle
    /\ \E c \in BOOLEAN : \E t \in Texts :
          llm = [client |-> c, idea_text |-> t, prompt |-> <<>>, pc |-> "called"]

(* lines 25-27: no client, return idea_text.strip() *)
PromptFallback ==
    /\ llm.pc = "called" /\ ~llm.client
    /\ llm' = [llm EXCEPT !.prompt = strip(llm.idea_text), !.pc = "returned"]
    /\ UNCHANGED <<jobvars, loras>>

(* lines 30-42: _call_llm is handed to asyncio.to_thread *)
PromptCallLLM ==
    /\ llm.pc = "called" /\ llm.client
    /\ llm' = [llm EXCEPT !.pc = "thread"]
    /\ UNCHANGED <<jobvars, loras>>

(* lines 31-40: the completion arrives and is stripped *)
PromptLLMReturns ==
    /\ llm.pc = "thread"
    /\ \E content \in Texts :
          llm' = [llm EXCEPT !.prompt = strip(content), !.pc = "returned"]
    /\ UNCHANGED <<jobvars, loras>>

(* line 31: the request raises, and so does generate_prompt_from_idea *)
PromptLLMRaises ==
    /\ llm.pc = "thread"
    /\ llm' = [llm EXCEPT !.pc = "raised"]
    /\ UNCHANGED <<jobvars, loras>>

PromptNext ==
    \/ PromptFallback
    \/ PromptCallLLM
    \/ PromptLLMReturns
    \/ PromptLLMRaises

PromptSpec == PromptInit /\ [][PromptNext]_vars

(* C14: without a client, generate_prompt_from_idea returns its argument    *)
(* unchanged.                                                                *)
C14_FallbackReturnsIdea ==
    (llm.pc = "returned" /\ ~llm.client) => llm.prompt = llm.idea_text

-----------------------------------------------------------------------------
unregister_first == <<"pop", "release_user", "release_global">>

Before(seq, x, y) ==
    \E m, n \in 1..Len(seq) : m < n /\ seq[m] = x /\ seq[n] = y

(* C16: a job takes the global slot before the per-requester slot and gives *)
(* the per-requester slot back before the global slot; a job that holds a   *)
(* per-requester slot holds a global slot.                                   *)
C16_GlobalOutermost ==
    \A j \in Jobs :
        /\ "user" \in held[j] => "global" \in held[j]
        /\ pc[j] = "wait_global" => held[j] = {}
        /\ pc[j] = "wait_user" => held[j] = {"global"}
        /\ cleanup[j] # <<>> => Before(cleanup[j], "release_user", "release_global")

C16_Witness ==
    \E j, k \in Jobs :
        /\ pc[j] = "wait_user" /\ held[j] = {"global"}
        /\ Before(cleanup[k], "release_user", "release_global")

RunningThreads == {j \in Jobs : thread[j] = "running"}

(* C17: the number of backend computations in progress never exceeds        *)
(* MAX_GLOBAL_CONCURRENT, also after jobs have been cancelled.               *)
C17_BackendWithinCap ==
    Cardinality(RunningThreads) <= MAX_GLOBAL_CONCURRENT

-----------------------------------------------------------------------------
(* job j runs its finally block in this step *)
CleansUp(j) == cleanup'[j] # cleanup[j]

(* C18: a job that ends removes only its own entry from user_tasks, never   *)
(* the entry of another job of the same requester.                           *)
C18_EndRemovesOwnEntryOnly ==
    [][\A u \in Users :
          (Get(user_tasks, u) # None /\ Get(user_tasks', u) = None)
              => CleansUp(Get(user_tasks, u))]_vars

JobsOf(u) == {j \in Jobs : user_id(j) = u}

(* C19: cancel(R) leaves every other requester alone: the registry entry,   *)
(* the per-requester semaphore and every job of a requester other than R    *)
(* are unchanged by the call.                                                *)
C19_CancelTouchesOwnRequesterOnly ==
    [][\A u \in Users : CancelStep(u) =>
          /\ last_cancel'.task # None => user_id(last_cancel'.task) = u
          /\ \A v \in Users \ {u} :
                /\ Get(user_tasks', v) = Get(user_tasks, v)
                /\ Get(_user_semaphores', v) = Get(_user_semaphores, v)
                /\ \A j \in JobsOf(v) :
                      /\ pc'[j] = pc[j]
                      /\ must_cancel'[j] = must_cancel[j]
                      /\ thread'[j] = thread[j]
                      /\ exc'[j] = exc[j]
                      /\ held'[j] = held[j]
                      /\ released'[j] = released[j]
                      /\ notices'[j] = notices[j]
                      /\ cleanup'[j] = cleanup[j]]_vars

C19_Witness ==
    /\ last_cancel.reply = "cancelled" /\ last_cancel.user = "A"
    /\ must_cancel[last_cancel.task]
    /\ \E j \in JobsOf("B") :
          Dispatched(j) /\ Get(user_tasks, "B") = j /\ ~must_cancel[j]

BeforeAdmission(j) == pc[j] \in {"new", "wait_global", "wait_user"}

(* C20: a job is entered in user_tasks only when it holds both tickets, so  *)
(* cancel never reaches a job that is waiting for admission, and no job     *)
(* ends holding exactly one of the two tickets.                              *)
C20_OnlyAdmittedJobsCancellable ==
    \A j \in Jobs :
        /\ BeforeAdmission(j) =>
              /\ ~must_cancel[j]
              /\ \A u \in Users : Get(user_tasks, u) # j
              /\ last_cancel.task # j
        /\ (\E u \in Users : Get(user_tasks, u) = j) /\ ~done(j) =>
              held[j] = {"global", "user"}
        /\ done(j) => Cardinality(held[j]) # 1

C20_Witness ==
    /\ last_cancel.reply = "cancelled"
    /\ \E j \in JobsOf(last_cancel.user) :
          pc[j] = "wait_user" /\ held[j] = {"global"} /\ ~must_cancel[j]
    /\ \E k \in Jobs : done(k) /\ held[k] = {}

====
